---- MODULE Spec2Model ----
(***************************************************************************)
(* Model of the gamma detector controller (gammad.py, class Controller):   *)
(* the datagram dispatcher, the session state machine and the acquisition  *)
(* scheduler driven by a twisted LoopingCall and deferToThread.            *)
(*                                                                         *)
(* Python values are encoded as strings: None is "None"; a detector_data   *)
(* dict is named by the plugin_name it carries ("{}" is the dict without   *)
(* a plugin_name key); a start/stop message is named by its session_name.  *)
(***************************************************************************)
EXTENDS Integers, Sequences, FiniteSets, TLC

\* ---- bounds of the model ------------------------------------------------
\* Largest spectrum index an acquisition may be given (caps the counter).
MaxIndex == 3

\* Number of telemetry samples the gps thread produces after the first.
MaxSample == 2

\* ---- values ---------------------------------------------------------------
None == "None"

\* class SessionState / SpectrumState / DetectorState
Ready == "Ready"
Busy == "Busy"
Cold == "Cold"
Warm == "Warm"

\* Number of counted failures at which handleSpectrumFailure tears down.
FailureThreshold == 3

\* A key the inbound message does not carry (msg[...] raises KeyError).
Missing == "<missing>"

\* Session names an operator may send.
SessionNames == {"A", "B"}

\* Driver plugins: plugin_osprey is the module of this repository (it defines
\* no initializePlugin / finalizePlugin / initializeSession / finalizeSession);
\* "conforming" stands for a module defining every function the controller
\* calls; "nosuch" is a name for which import_module raises ImportError.
Osprey == "osprey"
Conforming == "conforming"
NoSuch == "nosuch"
EmptyData == "{}"
DetectorDatas == {EmptyData, Osprey, Conforming, NoSuch}

\* The plugin module defines the lifecycle functions the controller calls.
HasLifecycle(p) == p = Conforming

\* import_module('plugin_' + name) finds a module.
Importable(name) == name \in {Osprey, Conforming}

VARIABLES
    client_address,      \* self.client_address: None or the sender
    detector_state,      \* self.detector_state
    detector_data,       \* self.detector_data
    session_args,        \* self.session_args: None or the start message
    session_loop,        \* self.session_loop: None, "running" or "stopped"
    session_state,       \* self.session_state
    spectrum_state,      \* self.spectrum_state
    spectrum_index,      \* self.spectrum_index
    spectrum_failures,   \* self.spectrum_failures
    database_connection, \* self.database_connection: None or "open"
    plugin,              \* self.plugin: None or the bound module
    plugin_status,       \* the conforming module: "unloaded", "initialized", "finalized"
    inflight,            \* acquisitions handed to the thread pool, not yet completed
    protocol,            \* the DatagramProtocol: "constructed", "started" or "stopped"
    gps_thread,          \* the GpsThread: "new", "running" or "stopped"
    gps_sample,          \* self.gps.position / velocity / time: the number of the latest sample
    stored,              \* indices inserted through the latest store handle
    out,                 \* what the last step did: calls to collaborators and responses
    last,                \* the handler or thread step that ran last and the input it was given
    consec,              \* history: failed completions since the last success or session reset
    liveName,            \* history: name of the session a start_session_success announced, until it ends
    terminals            \* history: terminal responses since the last start_session_success

vars == <<client_address, detector_state, detector_data, session_args, session_loop,
          session_state, spectrum_state, spectrum_index, spectrum_failures,
          database_connection, plugin, plugin_status, inflight, protocol, gps_thread,
          gps_sample, stored, out, last, consec, liveName, terminals>>

\* The controller's own fields other than the operator address.
ctl == <<detector_state, detector_data, session_args, session_loop, session_state,
         spectrum_state, spectrum_index, spectrum_failures, database_connection,
         plugin, plugin_status, inflight, stored>>

\* ---- outputs --------------------------------------------------------------
\* A response envelope handed to sendResponse, or a call to a collaborator.
Resp(tag) == [kind |-> "response", tag |-> tag, arg |-> <<>>]
RespArg(tag, arg) == [kind |-> "response", tag |-> tag, arg |-> arg]
Call(tag) == [kind |-> "call", tag |-> tag, arg |-> <<>>]
CallArg(tag, arg) == [kind |-> "call", tag |-> tag, arg |-> arg]

\* The handler that ran and its input.
Ran(op, arg) == [op |-> op, arg |-> arg]

\* sendResponse: written to the transport only when a sender has been seen.
sendResponse(addr, r) == IF addr # None THEN <<r>> ELSE <<>>

Tags(seq) == {seq[i].tag : i \in 1..Len(seq)}
CountTag(seq, tag) == Cardinality({i \in 1..Len(seq) : seq[i].tag = tag})

TerminalTag == "error: failed 3 times, stopping session"

\* ---- Controller.__init__ ----------------------------------------------------
Init ==
    /\ client_address = None
    /\ detector_state = Cold
    /\ detector_data = None
    /\ session_args = None
    /\ session_loop = None
    /\ session_state = Ready
    /\ spectrum_state = Ready
    /\ spectrum_index = 0
    /\ spectrum_failures = 0
    /\ database_connection = None
    /\ plugin = None
    /\ plugin_status = "unloaded"
    /\ inflight = <<>>
    /\ protocol = "constructed"
    /\ gps_thread = "new"
    /\ gps_sample = 0
    /\ stored = <<>>
    /\ out = <<>>
    /\ last = Ran("__init__", "")
    /\ consec = 0
    /\ liveName = None
    /\ terminals = 0


\* The sender of every datagram (one remote operator).
Operator == "operator"

\* ---- Controller.loadPlugin and the detector_config branch ----------------------
\* Faulty variant of line 119: detector_config is never refused.
DetectorConfigBusyNever == FALSE

\* line 119: detector_config is refused while a session is active.
DetectorConfigBusy == session_state = Busy

\* loadPlugin(name): finalizes the bound plugin, then imports plugin_<name>.
\* Result: the module (or None when nothing is returned), the conforming
\* module's status, the calls made and the exception raised ("" for none).
loadPlugin(name) ==
    IF plugin # None /\ ~HasLifecycle(plugin)
    THEN [module |-> None, status |-> plugin_status, calls |-> <<>>,
          raised |-> "AttributeError"]
    ELSE LET fin == plugin # None
             st == IF fin THEN "finalized" ELSE plugin_status
             cs == IF fin THEN <<Call("plugin.finalizePlugin")>> ELSE <<>>
         IN IF Importable(name)
            THEN [module |-> name, status |-> st, calls |-> cs, raised |-> ""]
            ELSE [module |-> None, status |-> st, calls |-> cs, raised |-> "ImportError"]

\* The detector_config branch of datagramReceived (lines 118-131), with the
\* except clauses of lines 198-208 that answer what it raises.
DetectorConfig(d) ==
    /\ client_address' = Operator
    /\ protocol = "started"
    /\ last' = Ran("detector_config", d)
    /\ UNCHANGED <<protocol, gps_thread, gps_sample>>
    /\ UNCHANGED <<session_args, session_loop, session_state, spectrum_state,
                   spectrum_index, spectrum_failures, database_connection,
                   inflight, stored, consec, liveName, terminals>>
    /\ IF DetectorConfigBusy
       THEN /\ out' = sendResponse(client_address', Resp("detector_config_busy"))
            /\ UNCHANGED <<detector_data, detector_state, plugin, plugin_status>>
       ELSE IF d = Missing
       THEN \* msg['detector_data'] raises KeyError
            /\ out' = sendResponse(client_address', Resp("error"))
            /\ UNCHANGED <<detector_data, detector_state, plugin, plugin_status>>
       ELSE /\ detector_data' = d
            /\ IF d = EmptyData
               THEN /\ out' = sendResponse(client_address', Resp("detector_config_error"))
                    /\ UNCHANGED <<detector_state, plugin, plugin_status>>
               ELSE LET lp == loadPlugin(d) IN
                    IF lp.raised # ""
                    THEN /\ plugin_status' = lp.status
                         /\ out' = lp.calls \o sendResponse(client_address', Resp("error"))
                         /\ UNCHANGED <<detector_state, plugin>>
                    ELSE /\ plugin' = lp.module
                         /\ IF ~HasLifecycle(lp.module)
                            THEN \* self.plugin.initializePlugin raises AttributeError
                                 /\ plugin_status' = lp.status
                                 /\ out' = lp.calls \o sendResponse(client_address', Resp("error"))
                                 /\ UNCHANGED detector_state
                            ELSE /\ plugin_status' = "initialized"
                                 /\ detector_state' = Warm
                                 /\ out' = lp.calls \o
                                           <<Call("plugin.initializePlugin"),
                                             Call("plugin.initializeDetector")>> \o
                                           sendResponse(client_address',
                                                        Resp("detector_config_success"))

\* ---- Controller.sessionTick ---------------------------------------------------
\* Faulty variant of the guard of sessionTick: every tick submits.
SpectrumReadyAlways == TRUE

\* line 241: a tick starts an acquisition only when none is under way.
SpectrumReady == spectrum_state = Ready

\* A call of aquireSpectrum handed to the thread pool by deferToThread. It is
\* "queued" until a worker thread runs it; the worker then reads the gps
\* sample and self.session_args and blocks in plugin.acquireSpectrum.
\* submitted: self.session_args when the tick ran; stale: a later
\* start_session succeeded while the call was outstanding (history).
Queued(args) ==
    [phase |-> "queued", submitted |-> args, stale |-> FALSE, args |-> None, telem |-> 0]

\* sessionTick run with self.session_args = args: the thread pool's queue and
\* spectrum_state afterwards, and the call made.
sessionTick(args) ==
    IF SpectrumReady
    THEN [inflight |-> Append(inflight, Queued(args)), spectrum_state |-> Busy,
          calls |-> <<Call("deferToThread")>>]
    ELSE [inflight |-> inflight, spectrum_state |-> spectrum_state, calls |-> <<>>]

\* The LoopingCall fires (every 0.05 s while it is running).
SessionTick ==
    /\ session_loop = "running"
    /\ LET t == sessionTick(session_args) IN
       /\ inflight' = t.inflight
       /\ spectrum_state' = t.spectrum_state
       /\ out' = t.calls
    /\ protocol = "started"
    /\ last' = Ran("sessionTick", "")
    /\ UNCHANGED <<protocol, gps_thread, gps_sample>>
    /\ UNCHANGED <<client_address, detector_state, detector_data, session_args,
                   session_loop, session_state, spectrum_index, spectrum_failures,
                   database_connection, plugin, plugin_status, stored, consec,
                   liveName, terminals>>

\* ---- start_session: initializeSession, startSession ---------------------------
\* Faulty variant of line 134: start_session is never refused.
StartSessionBusyNever == FALSE

\* line 134: start_session is refused while a session is active.
StartSessionBusy == session_state = Busy

\* line 231: the state startSession leaves the session in.
startSessionState == Busy

\* The start_session branch of datagramReceived (lines 133-139) with
\* initializeSession (210-217) and startSession (226-231); LoopingCall.start
\* calls sessionTick at once, before session_state is set.
StartSession(n) ==
    /\ client_address' = Operator
    /\ protocol = "started"
    /\ last' = Ran("start_session", n)
    /\ UNCHANGED <<protocol, gps_thread, gps_sample>>
    /\ UNCHANGED <<detector_state, detector_data, plugin, plugin_status>>
    /\ IF StartSessionBusy
       THEN /\ out' = sendResponse(client_address', Resp("start_session_busy"))
            /\ UNCHANGED <<session_args, session_loop, session_state, spectrum_state,
                           spectrum_index, spectrum_failures, database_connection,
                           inflight, stored, consec, liveName, terminals>>
       ELSE IF n = Missing
       THEN \* msg['session_name'] raises KeyError in initializeSession's log line
            /\ out' = sendResponse(client_address', Resp("error"))
            /\ UNCHANGED <<session_args, session_loop, session_state, spectrum_state,
                           spectrum_index, spectrum_failures, database_connection,
                           inflight, stored, consec, liveName, terminals>>
       ELSE /\ session_args' = n
            /\ spectrum_index' = 0
            /\ spectrum_failures' = 0
            /\ database_connection' = "open"
            /\ stored' = <<>>
            /\ IF plugin = None \/ ~HasLifecycle(plugin)
               THEN \* self.plugin.initializeSession raises AttributeError
                    /\ out' = <<Call("database.create")>> \o
                              sendResponse(client_address', Resp("error"))
                    /\ UNCHANGED <<session_loop, session_state, spectrum_state,
                                   inflight, consec, liveName, terminals>>
               ELSE LET t == sessionTick(n) IN
                    /\ session_loop' = "running"
                    /\ inflight' = [i \in 1..Len(t.inflight) |->
                                      IF i <= Len(inflight)
                                      THEN [t.inflight[i] EXCEPT !.stale = TRUE]
                                      ELSE t.inflight[i]]
                    /\ spectrum_state' = t.spectrum_state
                    /\ session_state' = startSessionState
                    /\ out' = <<Call("database.create"), Call("plugin.initializeSession"),
                                Call("loop.start")>> \o t.calls \o
                              sendResponse(client_address',
                                           RespArg("start_session_success", <<n>>))
                    /\ consec' = 0
                    /\ liveName' = n
                    /\ terminals' = 0

\* ---- stopSession, finalizeSession ---------------------------------------------
\* Faulty variant of line 237: stopSession leaves session_state Busy.
stopSessionStateBusy == Busy

\* line 237: the state stopSession leaves the session in.
stopSessionState == Ready

\* LoopingCall.stop asserts that the loop is running.
LoopStopRaises == session_loop # "running"

\* Faulty variant of line 144: the session name is not compared.
StopSessionWrongNameNever(n) == FALSE

\* line 142 / 144: the two refusals of stop_session.
StopSessionNoExist == session_state = Ready
StopSessionWrongName(n) == session_args # n

\* Faulty variant of finalizeSession: the store is closed before the driver's
\* session is finalized.
TeardownCallsCloseFirst ==
    <<Call("loop.stop"), Call("database.close"), Call("plugin.finalizeSession")>>

\* stopSession then finalizeSession (lines 233-237, 219-224): the calls made.
TeardownCalls ==
    <<Call("loop.stop"), Call("plugin.finalizeSession"), Call("database.close")>>

\* The stop_session branch of datagramReceived (lines 141-149).
StopSession(n) ==
    /\ client_address' = Operator
    /\ protocol = "started"
    /\ last' = Ran("stop_session", n)
    /\ UNCHANGED <<protocol, gps_thread, gps_sample>>
    /\ UNCHANGED <<detector_state, detector_data, plugin, plugin_status, session_args,
                   spectrum_state, spectrum_index, spectrum_failures, inflight, stored,
                   consec, terminals>>
    /\ liveName' = IF n = liveName THEN None ELSE liveName
    /\ IF StopSessionNoExist
       THEN /\ out' = sendResponse(client_address', Resp("stop_session_noexist"))
            /\ UNCHANGED <<session_loop, session_state, database_connection>>
       ELSE IF n = Missing
       THEN \* msg['session_name'] raises KeyError
            /\ out' = sendResponse(client_address', Resp("error"))
            /\ UNCHANGED <<session_loop, session_state, database_connection>>
       ELSE IF StopSessionWrongName(n)
       THEN /\ out' = sendResponse(client_address', Resp("stop_session_wrongname"))
            /\ UNCHANGED <<session_loop, session_state, database_connection>>
       ELSE IF LoopStopRaises
       THEN \* AssertionError out of session_loop.stop()
            /\ out' = <<Call("loop.stop")>> \o
                      sendResponse(client_address', Resp("error"))
            /\ UNCHANGED <<session_loop, session_state, database_connection>>
       ELSE /\ session_loop' = "stopped"
            /\ session_state' = stopSessionState
            /\ database_connection' = None
            /\ out' = TeardownCalls \o
                      sendResponse(client_address', RespArg("stop_session_success", <<n>>))


\* ---- dump_session, get_status, anything else -----------------------------------
\* line 152: dump_session is refused when no session is active.
DumpSessionNone == session_state = Ready

\* The dump_session branch of datagramReceived (lines 151-156).
DumpSession ==
    /\ client_address' = Operator
    /\ protocol = "started"
    /\ last' = Ran("dump_session", "")
    /\ UNCHANGED <<protocol, gps_thread, gps_sample>>
    /\ out' = sendResponse(client_address',
                           Resp(IF DumpSessionNone THEN "dump_session_none"
                                ELSE "dump_session_success"))
    /\ UNCHANGED <<ctl, consec, liveName, terminals>>

\* Faulty variant of line 163: the index is reported whatever the session state.
statusResponseRawIndex ==
    << session_state = Busy, spectrum_index, detector_state = Warm >>

\* The response dict of get_status (lines 160-165), free_disk_space left out:
\* <<session_running, spectrum_index, detector_configured>>.
statusResponse ==
    << session_state = Busy,
       IF session_state = Ready THEN 0 ELSE spectrum_index,
       detector_state = Warm >>

\* The get_status branch of datagramReceived (lines 158-166).
GetStatus ==
    /\ client_address' = Operator
    /\ protocol = "started"
    /\ last' = Ran("get_status", "")
    /\ UNCHANGED <<protocol, gps_thread, gps_sample>>
    /\ out' = sendResponse(client_address', RespArg("get_status_success", statusResponse))
    /\ UNCHANGED <<ctl, consec, liveName, terminals>>

\* A datagram that is no JSON, has no command, or names an unknown command
\* (lines 109, 113-114, 196): answered 'error'.
BadDatagram ==
    /\ client_address' = Operator
    /\ protocol = "started"
    /\ last' = Ran("bad_datagram", "")
    /\ UNCHANGED <<protocol, gps_thread, gps_sample>>
    /\ out' = sendResponse(client_address', Resp("error"))
    /\ UNCHANGED <<ctl, consec, liveName, terminals>>

\* ---- completion of an acquisition ------------------------------------------------
\* Faulty variant of line 263: the index is not advanced.
NextIndexSame(i) == i

\* line 263: the index after a successful acquisition.
NextIndex(i) == i + 1

\* database.insertSpectrum(handle, msg): raises on a handle that is None, and
\* on an open handle when the store fails (ok = FALSE).
insertRaises(handle, ok) == handle = None \/ ~ok

\* handleSpectrumSuccess (lines 260-266), run on the reactor thread when the
\* worker returns a spectrum.
HandleSpectrumSuccess(ok) ==
    /\ inflight # <<>>
    /\ Head(inflight).phase = "running"
    /\ spectrum_index < MaxIndex
    /\ inflight' = Tail(inflight)
    /\ protocol = "started"
    /\ last' = Ran("handleSpectrumSuccess", IF ok THEN "insert ok" ELSE "insert fails")
    /\ UNCHANGED <<protocol, gps_thread, gps_sample>>
    /\ spectrum_index' = NextIndex(spectrum_index)
    /\ consec' = 0
    /\ IF insertRaises(database_connection, ok)
       THEN \* the exception leaves the callback: nothing after line 264 runs
            /\ out' = <<CallArg("database.insertSpectrum", <<database_connection>>)>>
            /\ UNCHANGED <<stored, spectrum_state>>
       ELSE /\ stored' = Append(stored, spectrum_index)
            /\ out' = <<CallArg("database.insertSpectrum", <<database_connection>>)>> \o
                      sendResponse(client_address,
                                   RespArg("spectrum", <<spectrum_index, Head(inflight).telem>>))
            /\ spectrum_state' = Ready
    /\ UNCHANGED <<client_address, detector_state, detector_data, session_args,
                   session_loop, session_state, spectrum_failures, database_connection,
                   plugin, plugin_status, liveName, terminals>>

\* Faulty variant of line 273: the comparison is strict.
ThresholdReachedLate(f) == f > FailureThreshold

\* line 273: the counter has reached the threshold.
ThresholdReached(f) == f >= FailureThreshold

\* handleSpectrumFailure (lines 268-278), run on the reactor thread when the
\* worker's call raised.
HandleSpectrumFailure ==
    /\ inflight # <<>>
    /\ Head(inflight).phase = "running"
    /\ inflight' = Tail(inflight)
    /\ protocol = "started"
    /\ last' = Ran("handleSpectrumFailure", "")
    /\ UNCHANGED <<protocol, gps_thread, gps_sample>>
    /\ spectrum_failures' = spectrum_failures + 1
    /\ consec' = consec + 1
    /\ IF ~ThresholdReached(spectrum_failures')
       THEN /\ out' = sendResponse(client_address, Resp("error"))
            /\ spectrum_state' = Ready
            /\ UNCHANGED <<session_loop, session_state, database_connection,
                           liveName, terminals>>
       ELSE /\ liveName' = None
            /\ IF LoopStopRaises
               THEN \* AssertionError out of session_loop.stop(): the callback ends
                    /\ out' = sendResponse(client_address, Resp("error")) \o
                              <<Call("loop.stop")>>
                    /\ UNCHANGED <<session_loop, session_state, database_connection,
                                   spectrum_state, terminals>>
               ELSE /\ session_loop' = "stopped"
                    /\ session_state' = stopSessionState
                    /\ database_connection' = None
                    /\ out' = sendResponse(client_address, Resp("error")) \o
                              TeardownCalls \o
                              sendResponse(client_address, Resp(TerminalTag))
                    /\ terminals' = terminals + 1
                    /\ spectrum_state' = Ready
    /\ UNCHANGED <<client_address, detector_state, detector_data, session_args,
                   spectrum_index, plugin, plugin_status, stored>>

\* ---- the worker thread and the gps thread -----------------------------------------
\* The sample aquireSpectrum merges into the spectrum: the one it read in
\* lines 248-250, before the blocking call of line 252.
telemetryRead(sample) == sample

\* A worker thread starts aquireSpectrum (lines 246-252): it reads the gps
\* sample and self.session_args, then blocks in plugin.acquireSpectrum.
WorkerBegin ==
    /\ protocol = "started"
    /\ inflight # <<>>
    /\ Head(inflight).phase = "queued"
    /\ inflight' = <<[Head(inflight) EXCEPT !.phase = "running",
                                             !.args = session_args,
                                             !.telem = telemetryRead(gps_sample)]>>
                    \o Tail(inflight)
    /\ last' = Ran("aquireSpectrum", "")
    /\ out' = <<>>
    /\ UNCHANGED <<client_address, detector_state, detector_data, session_args,
                   session_loop, session_state, spectrum_state, spectrum_index,
                   spectrum_failures, database_connection, plugin, plugin_status,
                   protocol, gps_thread, gps_sample, stored, consec,
                   liveName, terminals>>

\* The gps thread replaces its sample (gc_gps.GpsThread, running from
\* startProtocol until gps_stop is set).
GpsUpdate ==
    /\ gps_thread = "running"
    /\ gps_sample < MaxSample
    /\ gps_sample' = gps_sample + 1
    /\ last' = Ran("GpsThread", "")
    /\ out' = <<>>
    /\ UNCHANGED <<client_address, detector_state, detector_data, session_args,
                   session_loop, session_state, spectrum_state, spectrum_index,
                   spectrum_failures, database_connection, plugin, plugin_status,
                   inflight, protocol, gps_thread, stored, consec,
                   liveName, terminals>>

\* ---- startProtocol, stopProtocol ----------------------------------------------------
\* startProtocol (lines 91-94): the gps thread is started.
StartProtocol ==
    /\ protocol = "constructed"
    /\ protocol' = "started"
    /\ gps_thread' = "running"
    /\ last' = Ran("startProtocol", "")
    /\ out' = <<Call("gps.start")>>
    /\ UNCHANGED <<client_address, ctl, gps_sample, consec, liveName, terminals>>

\* stopProtocol (lines 96-102): the bound plugin is finalized, then the gps
\* thread is told to stop and joined. finalizePlugin on a module that does not
\* define it raises AttributeError, and lines 101-102 do not run.
StopProtocol ==
    /\ protocol = "started"
    /\ protocol' = "stopped"
    /\ last' = Ran("stopProtocol", "")
    /\ IF plugin # None /\ ~HasLifecycle(plugin)
       THEN /\ out' = <<>>
            /\ UNCHANGED <<plugin_status, gps_thread>>
       ELSE /\ plugin_status' = IF plugin # None THEN "finalized" ELSE plugin_status
            /\ gps_thread' = "stopped"
            /\ out' = (IF plugin # None THEN <<Call("plugin.finalizePlugin")>> ELSE <<>>)
                      \o <<Call("gps_stop.set"), Call("gps.join")>>
    /\ UNCHANGED <<client_address, detector_state, detector_data, session_args,
                   session_loop, session_state, spectrum_state, spectrum_index,
                   spectrum_failures, database_connection, plugin, inflight,
                   gps_sample, stored, consec, liveName, terminals>>

\* ---- the system ------------------------------------------------------------------
Next ==
    \/ \E d \in DetectorDatas \cup {Missing} : DetectorConfig(d)
    \/ \E n \in SessionNames \cup {Missing} : StartSession(n)
    \/ \E n \in SessionNames \cup {Missing} : StopSession(n)
    \/ DumpSession
    \/ GetStatus
    \/ BadDatagram
    \/ SessionTick
    \/ \E ok \in BOOLEAN : HandleSpectrumSuccess(ok)
    \/ HandleSpectrumFailure
    \/ WorkerBegin
    \/ GpsUpdate
    \/ StartProtocol
    \/ StopProtocol

Spec == Init /\ [][Next]_vars

TypeOK ==
    /\ client_address \in {None, Operator}
    /\ detector_state \in {Cold, Warm}
    /\ detector_data \in {None} \cup DetectorDatas
    /\ session_args \in {None} \cup SessionNames
    /\ session_loop \in {None, "running", "stopped"}
    /\ session_state \in {Ready, Busy}
    /\ spectrum_state \in {Ready, Busy}
    /\ spectrum_index \in 0..MaxIndex
    /\ spectrum_failures \in 0..FailureThreshold
    /\ database_connection \in {None, "open"}
    /\ plugin \in {None, Osprey, Conforming}
    /\ plugin_status \in {"unloaded", "initialized", "finalized"}
    /\ Len(inflight) <= 1
    /\ \A i \in 1..Len(inflight) :
          /\ inflight[i].phase \in {"queued", "running"}
          /\ inflight[i].submitted \in SessionNames
          /\ inflight[i].args \in {None} \cup SessionNames
          /\ inflight[i].stale \in BOOLEAN
          /\ inflight[i].telem \in 0..MaxSample
    /\ protocol \in {"constructed", "started", "stopped"}
    /\ gps_thread \in {"new", "running", "stopped"}
    /\ gps_sample \in 0..MaxSample
    /\ Len(stored) <= MaxIndex


\* ==== properties ====================================================================

\* C1: at most one acquisition is in flight at any instant, and a tick that
\* finds spectrum_state Busy submits nothing and queues nothing.
C1_AtMostOneInFlight ==
    /\ [](Len(inflight) <= 1)
    /\ [][(last'.op = "sessionTick" /\ spectrum_state = Busy)
            => (inflight' = inflight /\ out' = <<>>)]_vars

\* A tick arrived while an acquisition was in flight and was dropped.
C1_Witness ==
    /\ last.op = "sessionTick"
    /\ out = <<>>
    /\ Len(inflight) = 1
    /\ spectrum_state = Busy

\* C2 (as claimed): the failure counter counts consecutive failures, so the
\* forced stop of a session happens only when the last 3 completed
\* acquisitions all failed, with no success in between.
C2_StopOnlyAfterConsecutiveFailures ==
    (last.op = "handleSpectrumFailure" /\ TerminalTag \in Tags(out))
        => consec >= FailureThreshold

\* C3: the records inserted through a session's store handle carry the indices
\* 0,1,2,... in completion order with no gap and no duplicate, and
\* spectrum_index goes back to 0 only in start_session.
C3_IndicesSequential ==
    /\ [](\A i \in 1..Len(stored) : stored[i] = i - 1)
    /\ [][(spectrum_index # 0 /\ spectrum_index' = 0) => last'.op = "start_session"]_vars

\* Two records were stored in a session started after an earlier session had
\* advanced the index.
C3_Witness ==
    /\ last.op = "handleSpectrumSuccess"
    /\ stored = <<0, 1>>
    /\ spectrum_index = 2


\* The call to database.insertSpectrum, if the handler made one.
InsertCalls(seq) == {i \in 1..Len(seq) : seq[i].tag = "database.insertSpectrum"}

\* C4 (as claimed): the result of an acquisition that completes after its
\* session was torn down (session Idle, store handle None) is discarded:
\* spectrum_index is not advanced, no insert is attempted on the None handle
\* and no spectrum response is sent.
C4_LateResultDiscarded ==
    [][(last'.op = "handleSpectrumSuccess" /\ session_state = Ready
            /\ database_connection = None)
         => (/\ spectrum_index' = spectrum_index
             /\ InsertCalls(out') = {}
             /\ "spectrum" \notin Tags(out'))]_vars

\* C5: the session is Active exactly when a start_session was answered
\* start_session_success and neither a stop_session naming that session nor
\* an escalation has happened since.
C5_ActiveIffStarted == (session_state = Busy) <=> (liveName # None)

\* A session that was started has been ended by the escalation.
C5_Witness ==
    /\ last.op = "handleSpectrumFailure"
    /\ TerminalTag \in Tags(out)
    /\ session_state = Ready
    /\ liveName = None

\* C6: the third consecutive failure in an Active session makes the session
\* Idle, closes the store handle, makes get_status report session_running
\* false, and sends the terminal response exactly once for that session.
C6_EscalationOnce ==
    /\ [](terminals <= 1)
    /\ [][(last'.op = "handleSpectrumFailure" /\ session_state = Busy
             /\ consec' >= FailureThreshold)
            => (/\ session_state' = Ready
                /\ database_connection' = None
                /\ session_loop' = "stopped"
                /\ statusResponse'[1] = FALSE
                /\ CountTag(out', TerminalTag) = 1
                /\ terminals' = 1)]_vars

\* Three failures in a row, and nothing else, ended the session.
C6_Witness ==
    /\ last.op = "handleSpectrumFailure"
    /\ consec = FailureThreshold
    /\ spectrum_failures = FailureThreshold
    /\ spectrum_index = 0
    /\ terminals = 1
    /\ session_state = Ready

\* The handlers run by datagramReceived, and the tags of failure responses.
DatagramOps == {"detector_config", "start_session", "stop_session", "dump_session",
                "get_status", "bad_datagram"}
FailureTags == {"error", "detector_config_busy", "detector_config_error",
                "start_session_busy", "stop_session_noexist", "stop_session_wrongname",
                "dump_session_none"}

\* C7 (as claimed): a datagram answered with a failure response leaves every
\* field of the controller but the operator address unchanged.
C7_RejectedCommandNoMutation ==
    [][(last'.op \in DatagramOps /\ Tags(out') \cap FailureTags # {})
         => UNCHANGED ctl]_vars

\* C8 (as claimed): detector_config naming a plugin that cannot be imported
\* is answered with a failure response and leaves the session state, the
\* detector state, the stored detector_data and the bound driver (with its
\* initialized / finalized status) unchanged.
C8_UnknownPluginNoMutation ==
    [][(last' = Ran("detector_config", NoSuch) /\ session_state = Ready)
         => (/\ Tags(out') \cap FailureTags # {}
             /\ UNCHANGED <<session_state, detector_state, detector_data,
                            plugin, plugin_status>>)]_vars

\* C9 (as claimed): session_args is set whenever the session is Active and
\* is None whenever it is Idle.
C9_SessionArgsLiveIffActive ==
    /\ session_state = Busy => session_args # None
    /\ session_state = Ready => session_args = None

\* C10: start_session received while the session is Active is answered
\* start_session_busy alone and binds no session_args, leaves the index and
\* the failure counter alone, opens no store handle, and neither restarts the
\* loop nor submits an acquisition.
C10_StartWhileActiveBusy ==
    [][(last'.op = "start_session" /\ session_state = Busy)
         => (/\ out' = <<Resp("start_session_busy")>>
             /\ UNCHANGED <<session_args, spectrum_index, spectrum_failures,
                            database_connection, stored, session_loop,
                            session_state, spectrum_state, inflight>>)]_vars

\* start_session with another name was refused in a session that had already
\* stored a record and counted a failure.
C10_Witness ==
    /\ last = Ran("start_session", "B")
    /\ out = <<Resp("start_session_busy")>>
    /\ session_args = "A"
    /\ spectrum_index = 1
    /\ spectrum_failures = 1


\* C11: stop_session naming another session than the active one is answered
\* stop_session_wrongname and changes nothing (the session stays Active, the
\* loop keeps running, the store handle stays open, the driver session is not
\* finalized); stop_session while Idle is answered stop_session_noexist and
\* changes nothing.
C11_StopRefusedNoChange ==
    [][/\ (last'.op = "stop_session" /\ session_state = Busy
              /\ last'.arg \in SessionNames /\ last'.arg # session_args)
          => (/\ out' = <<Resp("stop_session_wrongname")>>
              /\ UNCHANGED ctl
              /\ session_state' = Busy
              /\ session_loop' = "running"
              /\ database_connection' = "open")
       /\ (last'.op = "stop_session" /\ session_state = Ready)
          => (/\ out' = <<Resp("stop_session_noexist")>>
              /\ UNCHANGED ctl)]_vars

\* stop_session B was refused while session A was active.
C11_Witness ==
    /\ last = Ran("stop_session", "B")
    /\ out = <<Resp("stop_session_wrongname")>>
    /\ session_args = "A"
    /\ session_state = Busy
    /\ session_loop = "running"


\* C12 (as claimed): no acquisition error stops the daemon from serving: after
\* handleSpectrumFailure has reported a failure (escalated or not) the
\* acquisition state is Ready again, and a start_session received while Idle
\* with a working driver bound is accepted, leaving the session Active with
\* index and failure counter 0.
C12_ReadyAfterAnyFailure ==
    /\ [](last.op = "handleSpectrumFailure" => spectrum_state = Ready)
    /\ [][(last'.op = "start_session" /\ last'.arg \in SessionNames
             /\ session_state = Ready /\ plugin # None /\ HasLifecycle(plugin))
            => (/\ "start_session_success" \in Tags(out')
                /\ session_state' = Busy
                /\ spectrum_index' = 0
                /\ spectrum_failures' = 0)]_vars

\* C13 (as claimed): when the insert of a successful acquisition fails on an
\* open store handle, the failure is reported to the operator and the
\* acquisition state returns to Ready, so later ticks start new acquisitions.
C13_InsertFailureRecovered ==
    (last = Ran("handleSpectrumSuccess", "insert fails") /\ database_connection = "open")
        => (/\ "error" \in Tags(out)
            /\ spectrum_state = Ready)


\* C14: get_status is accepted in every state of a running daemon, changes
\* nothing, and replies get_status_success with session_running true exactly
\* when the session is Active, spectrum_index the current index when Active
\* and 0 when Idle, and detector_configured true exactly when the detector
\* is Warm.
C14_GetStatusReportsState ==
    /\ [](protocol = "started" => ENABLED GetStatus)
    /\ [][last'.op = "get_status"
            => (/\ UNCHANGED ctl
                /\ out' = <<RespArg("get_status_success",
                                    << session_state = Busy,
                                       IF session_state = Busy THEN spectrum_index ELSE 0,
                                       detector_state = Warm >>)>>)]_vars

\* get_status on an Idle daemon whose last session reached index 2 reported 0.
C14_Witness ==
    /\ last.op = "get_status"
    /\ session_state = Ready
    /\ spectrum_index = 2
    /\ out = <<RespArg("get_status_success", <<FALSE, 0, TRUE>>)>>


\* C15 (as claimed): stopProtocol stops the gps thread and, if a session is
\* Active, finalizes it: the loop is stopped, the driver's session is
\* finalized and the store handle is closed.
C15_ShutdownFinalizesSession ==
    [][last'.op = "stopProtocol"
         => (/\ gps_thread' = "stopped"
             /\ session_state = Busy
                  => (/\ session_loop' = "stopped"
                      /\ "plugin.finalizeSession" \in Tags(out')
                      /\ "database.close" \in Tags(out')
                      /\ database_connection' = None))]_vars


\* C16 (as claimed): an acquisition submitted in one session contributes
\* nothing to a later one: when it completes after a later start_session
\* succeeded, its result is not inserted through the new store handle, takes
\* no index of the new session and does not change its failure counter.
C16_NoCarryOver ==
    [][(last'.op \in {"handleSpectrumSuccess", "handleSpectrumFailure"}
          /\ inflight # <<>> /\ Head(inflight).stale)
         => (/\ stored' = stored
             /\ spectrum_index' = spectrum_index
             /\ spectrum_failures' = spectrum_failures)]_vars


\* Position of the first entry of seq with the given tag (0 if there is none).
Pos(seq, tag) ==
    IF tag \in Tags(seq)
    THEN CHOOSE i \in 1..Len(seq) :
            seq[i].tag = tag /\ \A j \in 1..(i - 1) : seq[j].tag # tag
    ELSE 0

\* C17: both ways from Active to Idle (stop_session and the escalation) tear
\* down in the same order: the loop is stopped (no tick can fire afterwards),
\* then the driver's session is finalized, then the store is closed and the
\* handle set to None; the stop_session_success / terminal response is the
\* last thing the handler sends, after these steps.
C17_TeardownOrder ==
    [][(session_state = Busy /\ session_state' = Ready)
         => (/\ last'.op \in {"stop_session", "handleSpectrumFailure"}
             /\ Pos(out', "loop.stop") > 0
             /\ Pos(out', "loop.stop") < Pos(out', "plugin.finalizeSession")
             /\ Pos(out', "plugin.finalizeSession") < Pos(out', "database.close")
             /\ Pos(out', "database.close") < Len(out')
             /\ out'[Len(out')].kind = "response"
             /\ out'[Len(out')].tag =
                  (IF last'.op = "stop_session" THEN "stop_session_success" ELSE TerminalTag)
             /\ CountTag(out', out'[Len(out')].tag) = 1
             /\ session_loop' = "stopped"
             /\ database_connection' = None)]_vars

\* The escalation tore the session down in this order.
C17_Witness ==
    /\ last.op = "handleSpectrumFailure"
    /\ out = <<Resp("error"), Call("loop.stop"), Call("plugin.finalizeSession"),
               Call("database.close"), Resp(TerminalTag)>>
    /\ session_state = Ready
    /\ database_connection = None


\* C18 (as claimed): the telemetry merged into a spectrum record is the
\* latest sample at the time the acquisition completes, also when the gps
\* thread replaced its sample while the driver's acquire call was running.
C18_TelemetryLatestAtCompletion ==
    (last.op = "handleSpectrumSuccess" /\ "spectrum" \in Tags(out))
        => out[Pos(out, "spectrum")].arg[2] = gps_sample


\* C19: one driver is bound at a time and detector_config is accepted only
\* while the session is Idle: a detector_config that rebinds (assigns
\* self.plugin while a driver is bound) has finalized the bound driver first,
\* before the new one is initialized; detector_config while a session is
\* Active is answered detector_config_busy and neither finalizes nor
\* replaces the bound driver.
C19_RebindFinalizesFirst ==
    [][/\ (last'.op = "detector_config" /\ session_state = Busy)
          => (/\ out' = <<Resp("detector_config_busy")>>
              /\ "plugin.finalizePlugin" \notin Tags(out')
              /\ UNCHANGED <<plugin, plugin_status, detector_state, detector_data>>)
       /\ "detector_config_success" \in Tags(out') => session_state = Ready
       /\ (last'.op = "detector_config" /\ plugin # None
             /\ (plugin' # plugin \/ "plugin.initializePlugin" \in Tags(out')))
          => (/\ Pos(out', "plugin.finalizePlugin") = 1
              /\ CountTag(out', "plugin.finalizePlugin") = 1
              /\ "plugin.initializePlugin" \in Tags(out')
                   => Pos(out', "plugin.initializePlugin") > 1)]_vars

\* A second detector_config finalized the bound driver, then initialized it anew.
C19_Witness ==
    /\ last = Ran("detector_config", Conforming)
    /\ out = <<Call("plugin.finalizePlugin"), Call("plugin.initializePlugin"),
               Call("plugin.initializeDetector"), Resp("detector_config_success")>>
    /\ plugin = Conforming
    /\ plugin_status = "initialized"


\* C20 (as claimed): teardown runs only on an Active session and at most
\* once per session: whenever a handler calls stopSession (session_loop.stop)
\* the session is Active, also when the failure that reaches the threshold
\* belongs to an acquisition that was in flight when stop_session tore the
\* session down.
C20_TeardownOnlyWhenActive ==
    [][("loop.stop" \in Tags(out') /\ last'.op \in {"stop_session", "handleSpectrumFailure"})
         => (/\ session_state = Busy
             /\ session_loop = "running"
             /\ CountTag(out', "loop.stop") = 1)]_vars

====
